---- MODULE Spec2Model ----
(***************************************************************************)
(* Model of support-end-notifier.py: a program that resolves the           *)
(* SUPPORT_END date, and depending on its arguments prints the status,     *)
(* shows a desktop notification, or (as a systemd generator) writes        *)
(* support-end.service and support-end.timer into a directory.             *)
(*                                                                         *)
(* Time is an integer count of units since ordinal day 0 of the proleptic  *)
(* Gregorian calendar (datetime.toordinal), UnitsPerDay units to a day.    *)
(* Optional values (None or a value) are sequences of length 0 or 1.       *)
(* A text value of SUPPORT_END is the sequence of its '-' separated        *)
(* numeric fields: "2024-03-03" is <<2024, 3, 3>>, "" is <<>>.             *)
(***************************************************************************)
EXTENDS Integers, Sequences, FiniteSets, TLC

VARIABLES clock, runs, pc, origin, args, env, os_release, enddate, exception,
          calls, reads, used, fs, fsAtStart, buf, gen, stdout, shown, exitcode

vars == <<clock, runs, pc, origin, args, env, os_release, enddate, exception,
          calls, reads, used, fs, fsAtStart, buf, gen, stdout, shown, exitcode>>

\* ------------------------------------------------------------------ bounds
UnitsPerDay == 2

MaxTicks == 3

MaxRuns == 2

\* ------------------------------------------------- calendar (datetime module)
is_leap(y) == y % 4 = 0 /\ (y % 100 # 0 \/ y % 400 = 0)

days_in_month(y, m) ==
    IF m = 2 THEN (IF is_leap(y) THEN 29 ELSE 28)
    ELSE IF m \in {4, 6, 9, 11} THEN 30 ELSE 31

DAYS_BEFORE_MONTH == <<0, 31, 59, 90, 120, 151, 181, 212, 243, 273, 304, 334>>

days_before_month(y, m) ==
    DAYS_BEFORE_MONTH[m] + (IF m > 2 /\ is_leap(y) THEN 1 ELSE 0)

days_before_year(y) ==
    (y - 1) * 365 + ((y - 1) \div 4) - ((y - 1) \div 100) + ((y - 1) \div 400)

ymd2ord(y, m, d) == days_before_year(y) + days_before_month(y, m) + d

ord2ymd(ord) ==
    LET n0   == ord - 1
        n400 == n0 \div 146097
        r400 == n0 % 146097
        n100 == r400 \div 36524
        r100 == r400 % 36524
        n4   == r100 \div 1461
        r4   == r100 % 1461
        n1   == r4 \div 365
        n    == r4 % 365
        year == n400 * 400 + 1 + n100 * 100 + n4 * 4 + n1
        leap == n1 = 3 /\ (n4 # 24 \/ n100 = 3)
        mth  == (n + 50) \div 32
        prec == DAYS_BEFORE_MONTH[mth] + (IF mth > 2 /\ leap THEN 1 ELSE 0)
        m2   == IF prec > n THEN mth - 1 ELSE mth
        dim  == IF m2 = 2 THEN (IF leap THEN 29 ELSE 28)
                ELSE IF m2 \in {4, 6, 9, 11} THEN 30 ELSE 31
        p2   == IF prec > n THEN prec - dim ELSE prec
    IN IF n1 = 4 \/ n100 = 4 THEN <<year - 1, 12, 31>>
       ELSE <<year, m2, n - p2 + 1>>

\* datetime.datetime.strptime(val, '%Y-%m-%d'): <<>> is ValueError
strptime(val) ==
    IF /\ Len(val) = 3
       /\ val[1] \in 1..9999
       /\ val[2] \in 1..12
       /\ val[3] >= 1
       /\ val[3] <= days_in_month(val[1], val[2])
    THEN <<ymd2ord(val[1], val[2], val[3]) * UnitsPerDay>>
    ELSE <<>>

\* datetime.isoformat(): <<year, month, day, unit of the day>>
isoformat(t) ==
    LET ymd == ord2ymd(t \div UnitsPerDay)
    IN <<ymd[1], ymd[2], ymd[3], t % UnitsPerDay>>

\* datetime.timedelta(days=n)
timedelta(days) == days * UnitsPerDay

\* mutant: the remaining days rounded up instead of truncated
timedelta_days_ceil(delta) == (delta + UnitsPerDay - 1) \div UnitsPerDay

\* timedelta.days
timedelta_days(delta) == delta \div UnitsPerDay

\* ------------------------------------------------------------------ inputs
File == "support-end-notifier.py"

Dir == "normal-dir"

StartTime == ymd2ord(2024, 2, 1) * UnitsPerDay

Unset == <<>>

NoFile == [exists |-> FALSE, SUPPORT_END |-> <<>>]

NoField == [exists |-> TRUE, SUPPORT_END |-> <<>>]

OsField(v) == [exists |-> TRUE, SUPPORT_END |-> <<v>>]

\* values of $SUPPORT_END: "2024-03", "2023-02-29", "2024-03-03", ...
EnvTexts == { <<2024, 3>>, <<2023, 2, 29>>, <<2024, 3, 3>>, <<2024, 2, 2>>,
              <<2024, 1, 31>> }

OsValues == { NoFile, NoField, OsField(<<2024, 2, 10>>) }

\* $SUPPORT_END set, or unset with each os-release, or empty
Environments ==
    { <<(<<v>>), NoFile>> : v \in EnvTexts }
    \cup { <<Unset, o>> : o \in OsValues }
    \cup { << (<< <<>> >>), NoField >> }

Argvs == { <<File>>, <<File, "--notify">>, <<File, Dir>>,
           <<File, "--notify", Dir>> }

\* ------------------------------------------------------------ the program
WARN_DAYS == <<30, 20, 10, 6, 5, 4, 3, 2, 1>>

Line(key, val, argv) == [key |-> key, val |-> val, argv |-> argv]

NoFileContent == [exists |-> FALSE, lines |-> <<>>]


\* argument_parser().parse_args(): --notify flag and the first positional
parse_args(argv) ==
    LET rest == Tail(argv)
        pos  == SelectSeq(rest, LAMBDA a : a # "--notify")
    IN [notify     |-> \E i \in 1..Len(rest) : rest[i] = "--notify",
        normal_dir |-> IF pos = <<>> THEN <<>> ELSE <<pos[1]>>]

\* mutant: a date that cannot be resolved is replaced by a default deadline
support_end_default(e, osr) ==
    LET fromEnv == e # <<>> /\ e[1] # <<>>
        val     == IF fromEnv THEN e[1]
                   ELSE IF osr.SUPPORT_END = <<>> THEN <<>>
                   ELSE osr.SUPPORT_END[1]
    IN IF strptime(val) = <<>>
         THEN [enddate |-> <<StartTime>>, exception |-> "None"]
       ELSE [enddate |-> strptime(val), exception |-> "None"]

\* support_end() under main's try/except: the end date or the exception
support_end(e, osr) ==
    LET fromEnv == e # <<>> /\ e[1] # <<>>
        val     == IF fromEnv THEN e[1] ELSE osr.SUPPORT_END[1]
    IN IF ~fromEnv /\ ~osr.exists
         THEN [enddate |-> <<>>, exception |-> "OSError"]
       ELSE IF ~fromEnv /\ osr.SUPPORT_END = <<>>
         THEN [enddate |-> <<>>, exception |-> "KeyError"]
       ELSE IF strptime(val) = <<>>
         THEN [enddate |-> <<>>, exception |-> "ValueError"]
       ELSE [enddate |-> strptime(val), exception |-> "None"]

\* datetime.datetime.today()
today == clock

now == today

\* mutant: triggers that already lie before now are left out
generate_times_filtered(end, n) ==
    IF end - n < timedelta(1)
    THEN << Line("OnActiveSec", <<60>>, <<>>) >>
    ELSE LET all == [i \in 1..Len(WARN_DAYS) |->
                       Line("OnCalendar",
                            isoformat(end - timedelta(WARN_DAYS[i])), <<>>)]
             future(l) == ymd2ord(l.val[1], l.val[2], l.val[3]) * UnitsPerDay
                            + l.val[4] >= n
         IN SelectSeq(all, future)

\* mutant: the else is missing, the table follows the relative trigger
generate_times_noelse(end, n) ==
    (IF end - n < timedelta(1)
     THEN << Line("OnActiveSec", <<60>>, <<>>) >> ELSE <<>>)
    \o [i \in 1..Len(WARN_DAYS) |->
          Line("OnCalendar", isoformat(end - timedelta(WARN_DAYS[i])), <<>>)]

\* generate_times(enddate) evaluated with the value now() returned
generate_times(end, n) ==
    IF end - n < timedelta(1)
    THEN << Line("OnActiveSec", <<60>>, <<>>) >>
    ELSE [i \in 1..Len(WARN_DAYS) |->
            Line("OnCalendar", isoformat(end - timedelta(WARN_DAYS[i])), <<>>)]

\* mutant: the file is opened for appending
open_wt_append(file) == [exists |-> TRUE, lines |-> file.lines]

\* pathlib.Path.open('wt'): the file is created or truncated
open_wt(file) == [exists |-> TRUE, lines |-> <<>>]

\* closing a text file flushes what print() buffered
close_file(file, buffered) == [exists |-> TRUE, lines |-> file.lines \o buffered]

\* mutant: the deadline itself already counts as past
do_notify_title_ge(end, n) ==
    IF n >= end
    THEN [title |-> "Support for this OS has ended", days |-> <<>>]
    ELSE [title |-> "Support for this OS ends in {left.days} days",
          days  |-> <<timedelta_days(end - n)>>]

\* the title do_notify passes to show_message
do_notify_title(end, n) ==
    IF n > end
    THEN [title |-> "Support for this OS has ended", days |-> <<>>]
    ELSE [title |-> "Support for this OS ends in {left.days} days",
          days  |-> <<timedelta_days(end - n)>>]

\* mutant: the --notify branch is tested before the usage error
main_branch_notify_first(a, end) ==
    IF ~a.notify /\ a.normal_dir = <<>> THEN "status"
    ELSE IF a.notify /\ end # <<>> THEN "notify"
    ELSE IF a.notify /\ a.normal_dir # <<>> THEN "usage"
    ELSE IF end # <<>> THEN "generate"
    ELSE "nothing"

\* which branch of main's if/elif chain runs
main_branch(a, end) ==
    IF ~a.notify /\ a.normal_dir = <<>> THEN "status"
    ELSE IF a.notify /\ a.normal_dir # <<>> THEN "usage"
    ELSE IF a.notify /\ end # <<>> THEN "notify"
    ELSE IF end # <<>> THEN "generate"
    ELSE "nothing"

Out(text, exc, key, val) == [text |-> text, exc |-> exc, key |-> key, val |-> val]

Terminal == {"idle", "done", "exited", "crashed", "execd"}

NoGen == [started |-> FALSE, rest |-> <<>>, cur |-> <<>>]

\* ------------------------------------------------------------------- state
Init ==
    /\ clock = StartTime
    /\ runs = 0
    /\ pc = "idle"
    /\ origin = "none"
    /\ args = [notify |-> FALSE, normal_dir |-> <<>>]
    /\ env = Unset
    /\ os_release = NoFile
    /\ enddate = <<>>
    /\ exception = "None"
    /\ calls = <<>>
    /\ reads = <<>>
    /\ used = {}
    /\ fs = [service |-> NoFileContent, timer |-> NoFileContent]
    /\ fsAtStart = fs
    /\ buf = <<>>
    /\ gen = NoGen
    /\ stdout = <<>>
    /\ shown = <<>>
    /\ exitcode = <<>>

\* time passes
Tick ==
    /\ clock < StartTime + MaxTicks
    /\ clock' = clock + 1
    /\ UNCHANGED <<runs, pc, origin, args, env, os_release, enddate, exception,
                   calls, reads, used, fs, fsAtStart, buf, gen, stdout, shown,
                   exitcode>>

\* a fresh process begins main(): parse_args
Begin(argv, e, osr, who) ==
    /\ pc \in Terminal
    /\ runs < MaxRuns
    /\ runs' = runs + 1
    /\ pc' = "parsed"
    /\ origin' = who
    /\ args' = parse_args(argv)
    /\ env' = e
    /\ os_release' = osr
    /\ enddate' = <<>>
    /\ exception' = "None"
    /\ calls' = <<"parse_args">>
    /\ reads' = <<>>
    /\ used' = {}
    /\ fsAtStart' = fs
    /\ buf' = <<>>
    /\ gen' = NoGen
    /\ stdout' = <<>>
    /\ shown' = <<>>
    /\ exitcode' = <<>>
    /\ UNCHANGED <<clock, fs>>

\* somebody runs the program by hand, or systemd runs it as a generator
Invoke ==
    \E argv \in Argvs, eo \in Environments : Begin(argv, eo[1], eo[2], "user")

\* the time an OnCalendar= value names, as systemd reads it
calendar_time(val) ==
    ymd2ord(val[1], val[2], val[3]) * UnitsPerDay + val[4]

\* a directive of support-end.timer whose time has come
due(line) ==
    IF line.key = "OnCalendar" THEN calendar_time(line.val) <= clock
    ELSE line.key = "OnActiveSec"

\* the timer elapses and systemd starts support-end.service: its ExecStart
Fire ==
    /\ fs.service.exists
    /\ fs.timer.exists
    /\ \E i \in 1..Len(fs.timer.lines) : due(fs.timer.lines[i])
    /\ \E j \in 1..Len(fs.service.lines), eo \in Environments :
          /\ fs.service.lines[j].key = "ExecStart"
          /\ Begin(fs.service.lines[j].argv, eo[1], eo[2], "timer")

\* main, lines 135-140
main_resolve ==
    /\ pc = "parsed"
    /\ pc' = "resolved"
    /\ enddate' = support_end(env, os_release).enddate
    /\ exception' = support_end(env, os_release).exception
    /\ calls' = Append(calls, "support_end")
    /\ UNCHANGED <<clock, runs, origin, args, env, os_release, reads, used, fs,
                   fsAtStart, buf, gen, stdout, shown, exitcode>>

\* main, lines 142-149
main_status ==
    /\ pc = "resolved"
    /\ main_branch(args, enddate) = "status"
    /\ pc' = "done"
    /\ exitcode' = <<0>>
    /\ IF enddate # <<>>
       THEN /\ reads' = Append(reads, now)
            /\ used' = used \cup {Len(reads) + 1}
            /\ stdout' = stdout \o
                 << Out("Found SUPPORT_END:", "", "", isoformat(enddate[1])),
                    Out("({} left)", "", "", <<enddate[1] - now>>) >>
       ELSE /\ stdout' = Append(stdout,
                           Out("No SUPPORT_END found:", exception, "", <<>>))
            /\ UNCHANGED <<reads, used>>
    /\ UNCHANGED <<clock, runs, origin, args, env, os_release, enddate,
                   exception, calls, fs, fsAtStart, buf, gen, shown>>

\* main, lines 151-152
main_usage ==
    /\ pc = "resolved"
    /\ main_branch(args, enddate) = "usage"
    /\ pc' = "exited"
    /\ exitcode' = <<1>>
    /\ calls' = Append(calls, "exit")
    /\ UNCHANGED <<clock, runs, origin, args, env, os_release, enddate,
                   exception, reads, used, fs, fsAtStart, buf, gen, stdout,
                   shown>>

\* main, lines 154-155: do_notify and show_message up to the main loop
do_notify ==
    /\ pc = "resolved"
    /\ main_branch(args, enddate) = "notify"
    /\ pc' = "mainloop"
    /\ calls' = calls \o <<"do_notify", "show_message">>
    /\ reads' = Append(reads, today)
    /\ used' = used \cup {Len(reads) + 1}
    /\ shown' = Append(shown, do_notify_title(enddate[1], today))
    /\ UNCHANGED <<clock, runs, origin, args, env, os_release, enddate,
                   exception, fs, fsAtStart, buf, gen, stdout, exitcode>>

\* the user clicks the notification
upgrade_callback ==
    /\ pc = "mainloop"
    /\ pc' = "execd"
    /\ calls' = calls \o <<"upgrade_callback", "execvp">>
    /\ stdout' = Append(stdout, Out("Trying to start upgrade", "", "", <<>>))
    /\ UNCHANGED <<clock, runs, origin, args, env, os_release, enddate,
                   exception, reads, used, fs, fsAtStart, buf, gen, shown,
                   exitcode>>

\* main reaches the end with no branch taken
main_nothing ==
    /\ pc = "resolved"
    /\ main_branch(args, enddate) = "nothing"
    /\ pc' = "done"
    /\ exitcode' = <<0>>
    /\ UNCHANGED <<clock, runs, origin, args, env, os_release, enddate,
                   exception, calls, reads, used, fs, fsAtStart, buf, gen,
                   stdout, shown>>

\* main, lines 157-158, and generate_units line 73
generate_units ==
    /\ pc = "resolved"
    /\ main_branch(args, enddate) = "generate"
    /\ pc' = "open_service"
    /\ calls' = Append(calls, "generate_units")
    /\ reads' = Append(reads, today)
    /\ UNCHANGED <<clock, runs, origin, args, env, os_release, enddate,
                   exception, used, fs, fsAtStart, buf, gen, stdout, shown,
                   exitcode>>

\* line 76
OpenService ==
    /\ pc = "open_service"
    /\ pc' = "print_service"
    /\ fs' = [fs EXCEPT !.service = open_wt(@)]
    /\ buf' = <<>>
    /\ UNCHANGED <<clock, runs, origin, args, env, os_release, enddate,
                   exception, calls, reads, used, fsAtStart, gen, stdout,
                   shown, exitcode>>

\* lines 77-78
PrintService ==
    /\ pc = "print_service"
    /\ pc' = "close_service"
    /\ buf' = buf \o << Line("[Service]", <<>>, <<>>),
                        Line("ExecStart", <<>>, <<File>>) >>
    /\ UNCHANGED <<clock, runs, origin, args, env, os_release, enddate,
                   exception, calls, reads, used, fs, fsAtStart, gen, stdout,
                   shown, exitcode>>

\* the end of the with block of line 76
CloseService ==
    /\ pc = "close_service"
    /\ pc' = "open_timer"
    /\ fs' = [fs EXCEPT !.service = close_file(@, buf)]
    /\ buf' = <<>>
    /\ UNCHANGED <<clock, runs, origin, args, env, os_release, enddate,
                   exception, calls, reads, used, fsAtStart, gen, stdout,
                   shown, exitcode>>

\* line 81
OpenTimer ==
    /\ pc = "open_timer"
    /\ pc' = "print_timer"
    /\ fs' = [fs EXCEPT !.timer = open_wt(@)]
    /\ buf' = <<>>
    /\ UNCHANGED <<clock, runs, origin, args, env, os_release, enddate,
                   exception, calls, reads, used, fsAtStart, gen, stdout,
                   shown, exitcode>>

\* line 82
PrintTimer ==
    /\ pc = "print_timer"
    /\ pc' = "loop"
    /\ buf' = Append(buf, Line("[Timer]", <<>>, <<>>))
    /\ UNCHANGED <<clock, runs, origin, args, env, os_release, enddate,
                   exception, calls, reads, used, fs, fsAtStart, gen, stdout,
                   shown, exitcode>>

\* mutant: the generator calls now() again for every value it yields
NextSpec_resample ==
    /\ pc = "loop"
    /\ ~gen.started \/ gen.rest # <<>>
    /\ LET seq == generate_times(enddate[1], now)
           k   == IF Len(buf) <= Len(seq) THEN Len(buf) ELSE Len(seq)
       IN gen' = [started |-> TRUE, cur |-> <<seq[k]>>,
                  rest |-> SubSeq(seq, k + 1, Len(seq))]
    /\ calls' = IF gen.started THEN calls ELSE Append(calls, "generate_times")
    /\ reads' = Append(reads, now)
    /\ used' = used \cup {Len(reads) + 1}
    /\ pc' = "got_spec"
    /\ UNCHANGED <<clock, runs, origin, args, env, os_release, enddate,
                   exception, fs, fsAtStart, buf, stdout, shown, exitcode>>

\* line 84: the for loop asks the generator for its next value; the first
\* request runs generate_times up to its first yield, which calls now()
NextSpec ==
    /\ pc = "loop"
    /\ IF ~gen.started
       THEN /\ calls' = Append(calls, "generate_times")
            /\ reads' = Append(reads, now)
            /\ used' = used \cup {Len(reads) + 1}
            /\ gen' = [started |-> TRUE,
                       cur  |-> <<Head(generate_times(enddate[1], now))>>,
                       rest |-> Tail(generate_times(enddate[1], now))]
            /\ pc' = "got_spec"
       ELSE /\ gen.rest # <<>>
            /\ gen' = [gen EXCEPT !.cur = <<Head(gen.rest)>>,
                                  !.rest = Tail(gen.rest)]
            /\ pc' = "got_spec"
            /\ UNCHANGED <<calls, reads, used>>
    /\ UNCHANGED <<clock, runs, origin, args, env, os_release, enddate,
                   exception, fs, fsAtStart, buf, stdout, shown, exitcode>>

\* lines 85-86
PrintSpec ==
    /\ pc = "got_spec"
    /\ pc' = "loop"
    /\ stdout' = Append(stdout,
                   Out("Got spec:", "", gen.cur[1].key, gen.cur[1].val))
    /\ buf' = Append(buf, gen.cur[1])
    /\ UNCHANGED <<clock, runs, origin, args, env, os_release, enddate,
                   exception, calls, reads, used, fs, fsAtStart, gen, shown,
                   exitcode>>

\* the generator is exhausted: the with block of line 81 ends, main returns
CloseTimer ==
    /\ pc = "loop"
    /\ gen.started
    /\ gen.rest = <<>>
    /\ pc' = "done"
    /\ exitcode' = <<0>>
    /\ fs' = [fs EXCEPT !.timer = close_file(@, buf)]
    /\ buf' = <<>>
    /\ UNCHANGED <<clock, runs, origin, args, env, os_release, enddate,
                   exception, calls, reads, used, fsAtStart, gen, stdout,
                   shown>>

\* open() of line 76 or 81 raises OSError: nothing catches it
OpenFails ==
    /\ pc \in {"open_service", "open_timer"}
    /\ pc' = "crashed"
    /\ exitcode' = <<1>>
    /\ UNCHANGED <<clock, runs, origin, args, env, os_release, enddate,
                   exception, calls, reads, used, fs, fsAtStart, buf, gen,
                   stdout, shown>>

\* print() to stdout of line 85 raises OSError: the with block closes the
\* timer file, flushing what was buffered, and nothing catches the exception
StdoutFails ==
    /\ pc = "got_spec"
    /\ pc' = "crashed"
    /\ exitcode' = <<1>>
    /\ fs' = [fs EXCEPT !.timer = close_file(@, buf)]
    /\ buf' = <<>>
    /\ UNCHANGED <<clock, runs, origin, args, env, os_release, enddate,
                   exception, calls, reads, used, fsAtStart, gen, stdout,
                   shown>>

Next ==
    \/ Tick
    \/ Invoke
    \/ Fire
    \/ main_resolve
    \/ main_status
    \/ main_usage
    \/ do_notify
    \/ upgrade_callback
    \/ main_nothing
    \/ generate_units
    \/ OpenService
    \/ PrintService
    \/ CloseService
    \/ OpenTimer
    \/ PrintTimer
    \/ NextSpec
    \/ PrintSpec
    \/ CloseTimer
    \/ OpenFails
    \/ StdoutFails

Spec == Init /\ [][Next]_vars

\* ------------------------------------------------------------- properties
Has(name) == \E i \in 1..Len(calls) : calls[i] = name

\* the one sample of the clock the run's comparison used
UsedNow == reads[CHOOSE i \in used : TRUE]

Offsets == <<30, 20, 10, 6, 5, 4, 3, 2, 1>>

IsDirective(l) == l.key \in {"OnActiveSec", "OnCalendar"}

Directives(lines) == SelectSeq(lines, IsDirective)

Header(name) == Line(name, <<>>, <<>>)

\* y-m-d names a day of the calendar: converting it to an ordinal and back
\* gives the same fields
ValidDate(v) ==
    /\ Len(v) = 3
    /\ v[1] \in 1..9999
    /\ v[2] \in 1..12
    /\ v[3] >= 1
    /\ ord2ymd(ymd2ord(v[1], v[2], v[3])) = v

IsoLess(a, b) ==
    \/ a[1] < b[1]
    \/ a[1] = b[1] /\ a[2] < b[2]
    \/ a[1] = b[1] /\ a[2] = b[2] /\ a[3] < b[3]
    \/ a[1] = b[1] /\ a[2] = b[2] /\ a[3] = b[3] /\ a[4] < b[4]

GeneratorDone == pc = "done" /\ Has("generate_times")

\* C1: when a generator run finds deadline - now >= 1 day, the timer holds
\* exactly 9 OnCalendar directives, the i-th naming the valid calendar time
\* deadline - Offsets[i] days, in that order and strictly increasing; none is
\* left out for lying before now.
C1_NineAbsoluteTriggers ==
    (GeneratorDone /\ enddate[1] - UsedNow >= UnitsPerDay) =>
        LET d == Directives(fs.timer.lines)
        IN /\ Len(d) = 9
           /\ Len(fs.timer.lines) = 10
           /\ \A i \in 1..Len(d) :
                 /\ d[i].key = "OnCalendar"
                 /\ ValidDate(SubSeq(d[i].val, 1, 3))
                 /\ d[i].val[4] \in 0..(UnitsPerDay - 1)
                 /\ i <= 9 =>
                      calendar_time(d[i].val) = enddate[1] - Offsets[i] * UnitsPerDay
           /\ \A i \in 1..(Len(d) - 1) : IsoLess(d[i].val, d[i + 1].val)

\* C1 witness: exactly one day is left, so every trigger of the table lies
\* before now, and the table starts 30 days before 2024-02-02 and ends the
\* day before it
C1_Witness ==
    /\ GeneratorDone
    /\ enddate[1] - UsedNow = UnitsPerDay
    /\ Len(fs.timer.lines) = 10
    /\ fs.timer.lines[2] = Line("OnCalendar", <<2024, 1, 3, 0>>, <<>>)
    /\ fs.timer.lines[10] = Line("OnCalendar", <<2024, 2, 1, 0>>, <<>>)
    /\ calendar_time(fs.timer.lines[10].val) < UsedNow + 1

\* C2: when a generator run finds deadline - now < 1 day (the deadline may be
\* past), the timer holds exactly one directive, OnActiveSec=60; and what a
\* run generates never mixes OnActiveSec and OnCalendar.
C2_OneRelativeTrigger ==
    /\ (GeneratorDone /\ enddate[1] - UsedNow < UnitsPerDay) =>
          /\ Directives(fs.timer.lines) = << Line("OnActiveSec", <<60>>, <<>>) >>
          /\ Len(fs.timer.lines) = 2
    /\ Has("generate_times") =>
          LET g == Directives(buf) \o gen.cur \o gen.rest
                     \o (IF pc = "done" THEN Directives(fs.timer.lines) ELSE <<>>)
          IN \A i, j \in 1..Len(g) : g[i].key = g[j].key

\* C2 witness: a generator run that started after the deadline
C2_Witness ==
    /\ GeneratorDone
    /\ UsedNow > enddate[1]
    /\ fs.timer.lines = << Header("[Timer]"), Line("OnActiveSec", <<60>>, <<>>) >>

\* C3: do_notify shows the "ended" message, without a number of days, exactly
\* when its now is strictly later than the deadline.
C3_EndedIffPast ==
    Has("do_notify") =>
        /\ Len(shown) = 1
        /\ Len(reads) = 1
        /\ reads[1] > enddate[1] =>
              shown[1] = [title |-> "Support for this OS has ended", days |-> <<>>]
        /\ reads[1] <= enddate[1] =>
              shown[1].title # "Support for this OS has ended"

\* C3 witness: notified more than a day after the deadline
C3_Witness ==
    /\ Has("do_notify")
    /\ reads[1] - enddate[1] > UnitsPerDay
    /\ shown[1].title = "Support for this OS has ended"

\* C4: when now is not later than the deadline, do_notify shows "ends in D
\* days" with D the whole days of deadline - now, truncated, and D >= 0.
C4_WholeDaysLeft ==
    (Has("do_notify") /\ reads[1] <= enddate[1]) =>
        /\ Len(shown) = 1
        /\ shown[1].title = "Support for this OS ends in {left.days} days"
        /\ Len(shown[1].days) = 1
        /\ shown[1].days[1] >= 0
        /\ shown[1].days[1] * UnitsPerDay <= enddate[1] - reads[1]
        /\ enddate[1] - reads[1] < (shown[1].days[1] + 1) * UnitsPerDay

\* C4 witness: more than 8 and less than 9 days are left, and D = 8
C4_Witness ==
    /\ Has("do_notify")
    /\ enddate[1] - reads[1] > 8 * UnitsPerDay
    /\ enddate[1] - reads[1] < 9 * UnitsPerDay
    /\ shown[1].days = <<8>>

\* the deadline of this run's environment cannot be resolved
Unresolvable ==
    IF env # <<>> /\ env[1] # <<>>
    THEN ~ValidDate(env[1])
    ELSE \/ ~os_release.exists
         \/ os_release.SUPPORT_END = <<>>
         \/ ~ValidDate(os_release.SUPPORT_END[1])

\* C5: when the deadline cannot be resolved, no deadline is set, neither
\* generate_units, generate_times nor do_notify is called, the unit files
\* stay as they were, nothing is shown, and status mode prints the failure
\* and ends normally.
C5_UnresolvedDoesNothing ==
    (pc \notin {"idle", "parsed"} /\ Unresolvable) =>
        /\ enddate = <<>>
        /\ exception # "None"
        /\ ~Has("generate_units")
        /\ ~Has("generate_times")
        /\ ~Has("do_notify")
        /\ fs = fsAtStart
        /\ shown = <<>>
        /\ pc \in {"resolved", "done", "exited"}
        /\ (pc = "done" /\ ~args.notify /\ args.normal_dir = <<>>) =>
              /\ stdout = << Out("No SUPPORT_END found:", exception, "", <<>>) >>
              /\ exitcode = <<0>>

\* C5 witness: status mode ended after os-release had no SUPPORT_END field
C5_Witness ==
    /\ pc = "done"
    /\ Unresolvable
    /\ ~args.notify
    /\ args.normal_dir = <<>>
    /\ exception = "KeyError"
    /\ stdout = << Out("No SUPPORT_END found:", "KeyError", "", <<>>) >>

UsageRun == pc # "idle" /\ args.notify /\ args.normal_dir # <<>>

\* C6 as amended: --notify with a directory ends the run with exit status 1
\* right after the deadline was looked up, whatever the lookup gave; the
\* clock is not read, no unit file changes and nothing is shown.
C6_UsageError ==
    UsageRun =>
        /\ fs = fsAtStart
        /\ shown = <<>>
        /\ reads = <<>>
        /\ stdout = <<>>
        /\ pc \in {"parsed", "resolved", "exited"}
        /\ pc = "exited" =>
              /\ exitcode = <<1>>
              /\ calls = <<"parse_args", "support_end", "exit">>

\* C6 witness: the usage error of a run whose deadline resolved
C6_Witness ==
    /\ UsageRun
    /\ pc = "exited"
    /\ enddate # <<>>

\* C6 as claimed: the usage error is raised before any other step of the
\* run, the lookup of the deadline included.
C6_Original ==
    UsageRun =>
        /\ fs = fsAtStart
        /\ shown = <<>>
        /\ pc \in {"parsed", "exited"}
        /\ pc = "exited" => exitcode = <<1>> /\ ~Has("support_end")

\* C7: a run started by the timer, with a deadline that resolves, goes to
\* do_notify and never to status or generator mode.
C7_FiringNotifies ==
    (origin = "timer" /\ pc \notin {"parsed", "resolved"} /\ enddate # <<>>) =>
        /\ Has("do_notify")
        /\ shown # <<>>

CompleteTimer(lines) ==
    /\ Len(lines) \in {2, 10}
    /\ lines[1] = Header("[Timer]")
    /\ Len(Directives(lines)) = Len(lines) - 1

\* C8: in no state is support-end.service written while support-end.timer
\* is missing, and in no state does support-end.timer hold only its header
\* or only a part of the directives.
C8_AtomicHandoff ==
    /\ (fs.service.exists /\ fs.service.lines # <<>>) => fs.timer.exists
    /\ (fs.timer.exists /\ fs.timer.lines # <<>>) => CompleteTimer(fs.timer.lines)

\* what a generator run writes into an empty directory
ExpectedTimer(end, n) ==
    << Header("[Timer]") >> \o
    (IF end - n < UnitsPerDay
     THEN << Line("OnActiveSec", <<60>>, <<>>) >>
     ELSE [i \in 1..9 |->
             Line("OnCalendar", isoformat(end - Offsets[i] * UnitsPerDay), <<>>)])

\* C9: after a completed generator run both files hold exactly what that
\* run writes into an empty directory, a function of its deadline and its
\* now alone, whatever the directory held before.
C9_Regeneration ==
    GeneratorDone =>
        /\ fs.service = [exists |-> TRUE,
                         lines  |-> << Header("[Service]"),
                                       Line("ExecStart", <<>>, <<File>>) >>]
        /\ fs.timer = [exists |-> TRUE, lines |-> ExpectedTimer(enddate[1], UsedNow)]

\* C9 witness: a completed run over a timer of another length, left by an
\* earlier run
C9_Witness ==
    /\ GeneratorDone
    /\ fsAtStart.timer.exists
    /\ fsAtStart.service.exists
    /\ Len(fsAtStart.timer.lines) > 0
    /\ Len(fsAtStart.timer.lines) # Len(fs.timer.lines)

\* C10 as amended: every comparison and duration of a run uses one sample of
\* the clock; a notify run reads the clock once; a generator run reads it
\* twice, in generate_units (a value it never uses) and in generate_times.
C10_OneSampleUsed ==
    /\ Cardinality(used) <= 1
    /\ Has("do_notify") => Len(reads) = 1 /\ used = {1}
    /\ Has("generate_units") =>
          IF Has("generate_times")
          THEN Len(reads) = 2 /\ used = {2}
          ELSE Len(reads) = 1 /\ used = {}

\* C10 witness: a completed generator run whose two readings differ
C10_Witness ==
    /\ GeneratorDone
    /\ Len(reads) = 2
    /\ reads[1] < reads[2]
    /\ used = {2}

\* C10 as claimed: a generator run and a notify run read the clock once.
C10_Original ==
    (Has("generate_units") \/ Has("do_notify")) => Len(reads) <= 1

====
